---- MODULE Spec2Model ----
(***************************************************************************)
(* The timing core of the CodyBPM practice metronome (src/src/App.tsx,     *)
(* the waveform variant, lines 26-421): the lookahead scheduler, the       *)
(* bar-count tempo progression, the transport commands, the start-BPM      *)
(* input and the waveform phase.                                           *)
(*                                                                         *)
(* Clocks.  The program reads two clocks and stores values read from them. *)
(* It only ever compares a stored value with the present reading of the    *)
(* same clock, or subtracts one from the other (lines 103, 153, 159, 206,  *)
(* 221), so every stored clock value is kept as its offset from the        *)
(* present reading: currentTime and perfNow are 0 by definition, and the   *)
(* passing of time moves the stored values instead.                        *)
(*   - audio clock (ctx.currentTime), unit Sec/second: nextNoteTimeRef,    *)
(*     click timestamps;                                                   *)
(*   - timer clock (setTimeout), same unit: the delay left of each pending *)
(*     timeout;                                                            *)
(*   - performance.now(), unit millisecond: lastFrameTimeRef.  The frame   *)
(*     clock is advanced by its own action (PerfTick), so frames may fall  *)
(*     anywhere between timer firings.                                     *)
(* Rendering state (waveGrid, isMobile) is not part of the timing core.    *)
(*                                                                         *)
(* Specifications.  Spec is the program driven through its interface, in a *)
(* tab that delivers no animation frames: a handler runs only where its    *)
(* control is enabled (the disabled attributes of lines 366, 385, 396,     *)
(* 400, 406).  WaveSpec adds the animation frames.  CallSpec adds direct   *)
(* calls of start, pause, stop, scheduleNote, playClick and the handlers   *)
(* of the settings in states where the interface would not make them.      *)
(***************************************************************************)
EXTENDS Integers, Sequences, FiniteSets, TLC

\* ------------------------------------------------------------ constants
INCREMENTS == <<5, 10, 15>>
BEATS_PER_MEASURE == 4
MEASURES_PER_BUMP == 4
MAX_BPM == 300
DEFAULT_BPM == 60
WAVE_LEN == 24
scheduleInterval == 25

\* Time unit: one millisecond is Ms units, chosen so that 60/bpm seconds is
\* a whole number of units for every tempo the bounded model reaches
\* (1, 6, 11, 16, 60, 65, 70, 75, 300).
Ms == 7 * 9 * 11 * 13
Sec == 1000 * Ms
\* Faulty variant: twice the lookahead.
lookaheadLong == Sec \div 5
\* const lookahead = 0.1
lookahead == Sec \div 10

\* ---------------------------------------------------------------- bounds
\* A session is followed while fewer than MaxMeasures measures are scheduled.
MaxMeasures == 5
\* Length of a stall of the event loop, in seconds.
StallSeconds == 5
\* Settings are edited, and a further session is started, while the
\* scheduler's count of measures is below MaxEditMeasures; direct calls are
\* made while it is below MaxCallMeasures.
MaxEditMeasures == 1
MaxCallMeasures == 1
\* Frame gap of the display, and the longest gap followed, in milliseconds.
FrameMs == 16
MaxFrameAge == 16
\* Frames are delivered while the scaled wave phase is below MaxPhase.
MaxPhase == 1
MaxWaveMeasures == 1
\* An uninterrupted session is followed while fewer than LiveMeasures
\* measures are scheduled: enough for a session started at DEFAULT_BPM with
\* the smallest increment to reach MAX_BPM.
LiveMeasures == 200

StepDelay == scheduleInterval * Ms
StallDelay == StallSeconds * Sec

\* Texts typed into the start-BPM input (a number input yields "" for
\* anything that is not a number).
TypedInputs ==
  { <<>>, <<"-", "5">>, <<"5", "0", "0">> }

\* -------------------------------------------------------------- helpers
Min(a, b) == IF a < b THEN a ELSE b
Max(a, b) == IF a > b THEN a ELSE b

Digits == <<"0", "1", "2", "3", "4", "5", "6", "7", "8", "9">>
IsDigit(c) == \E k \in 1..10 : Digits[k] = c
DigitValue(c) == (CHOOSE k \in 1..10 : Digits[k] = c) - 1

NaN == [nan |-> TRUE, val |-> 0]
Num(n) == [nan |-> FALSE, val |-> n]

RECURSIVE DigitPrefix(_, _)
\* (number of leading digits, their value) of s, given the value so far
DigitPrefix(s, acc) ==
  IF s = <<>> \/ ~IsDigit(Head(s)) THEN <<0, acc>>
  ELSE LET r == DigitPrefix(Tail(s), 10 * acc + DigitValue(Head(s)))
       IN  <<r[1] + 1, r[2]>>

\* parseInt(s, 10): an optional sign, then the longest run of digits; NaN
\* when there is no digit.
parseInt(s) ==
  LET signed == s # <<>> /\ Head(s) \in {"-", "+"}
      body == IF signed THEN Tail(s) ELSE s
      r == DigitPrefix(body, 0)
  IN  IF r[1] = 0 THEN NaN
      ELSE IF signed /\ Head(s) = "-" THEN Num(0 - r[2]) ELSE Num(r[2])

RECURSIVE String(_)
\* String(n) for n >= 0
String(n) ==
  IF n < 10 THEN <<Digits[n + 1]>>
  ELSE String(n \div 10) \o <<Digits[(n % 10) + 1]>>

\* x || DEFAULT_BPM for x = parseInt(...): NaN and 0 are falsy
OrDefault(x) == IF x.nan \/ x.val = 0 THEN DEFAULT_BPM ELSE x.val

currentTime == 0
perfNow == 0

\* --------------------------------------------------------------- state
VARIABLES
  startBpmInput, selectedIncrement, isPlaying, isPaused,
  currentBpm, currentBeat, measureInCycle, totalMeasures,
  audioCtxRef, timerRef, nextNoteTimeRef, currentBeatRef,
  measureInCycleRef, totalMeasuresRef, currentBpmRef,
  isPlayingRef, isPausedRef, incrementRef,
  wavePhaseRef, animFrameRef, lastFrameTimeRef,
  timeouts,
  lastOp, prevClick, emitted

\* React state
uiVars == <<startBpmInput, selectedIncrement, isPlaying, isPaused,
            currentBpm, currentBeat, measureInCycle, totalMeasures>>
\* refs of the scheduler
schedVars == <<audioCtxRef, timerRef, nextNoteTimeRef, currentBeatRef,
               measureInCycleRef, totalMeasuresRef, currentBpmRef,
               isPlayingRef, isPausedRef, incrementRef>>
\* refs of the waveform animation
waveVars == <<wavePhaseRef, animFrameRef, lastFrameTimeRef>>
\* everything the program holds: state, refs and pending callbacks
progVars == <<uiVars, schedVars, waveVars, timeouts>>
\* observation only: the last handler that ran, the last click emitted
\* before it, and the clicks it emitted
histVars == <<lastOp, prevClick, emitted>>
vars == <<progVars, histVars>>

startBpm == OrDefault(parseInt(startBpmInput))

Init ==
  /\ startBpmInput = String(DEFAULT_BPM)
  /\ selectedIncrement = 1
  /\ isPlaying = FALSE
  /\ isPaused = FALSE
  /\ currentBpm = DEFAULT_BPM
  /\ currentBeat = -1
  /\ measureInCycle = 0
  /\ totalMeasures = 0
  /\ audioCtxRef = "null"
  /\ timerRef = "null"
  /\ nextNoteTimeRef = 0
  /\ currentBeatRef = 0
  /\ measureInCycleRef = 0
  /\ totalMeasuresRef = 0
  /\ currentBpmRef = DEFAULT_BPM
  /\ isPlayingRef = FALSE
  /\ isPausedRef = FALSE
  /\ incrementRef = INCREMENTS[2]
  /\ wavePhaseRef = 0
  /\ animFrameRef = "null"
  /\ lastFrameTimeRef = 0
  /\ timeouts = <<>>
  /\ lastOp = "init"
  /\ prevClick = <<>>
  /\ emitted = <<>>

\* ------------------------------------------------------------ scheduler
\* A pending setTimeout callback: kind names the callback, due is the delay
\* left, arg the value its closure captured (beat, or newBpm), ref tells
\* whether timerRef.current holds its id.
Timeout(kind, due, arg) ==
  [kind |-> kind, due |-> due, arg |-> arg, ref |-> FALSE]

Last1(seq) == IF seq = <<>> THEN <<>> ELSE <<seq[Len(seq)]>>
RemoveAt(seq, i) == SubSeq(seq, 1, i - 1) \o SubSeq(seq, i + 1, Len(seq))
SelectSeqNotRef(tos) == SelectSeq(tos, LAMBDA t : ~t.ref)
Unref(tos) == [i \in 1..Len(tos) |-> [tos[i] EXCEPT !.ref = FALSE]]

\* Math.min(Math.max(startBpm, 1), MAX_BPM)
clampBpm(bpm) == Min(Max(bpm, 1), MAX_BPM)

\* Faulty variants of the definitions below, by which the properties at the
\* end of the module are tested: each property must fail for its variant.
bumpBpmUnclamped(bpm, inc) == bpm + inc
bumpBpmDown(bpm, inc) == Min(Max(bpm - inc, 1), MAX_BPM)
bumpBpmTwice(bpm, inc) == Min(bpm + 2 * inc, MAX_BPM)
secondsPerBeatMs(bpm) == ((60 * 1000) \div bpm) * Ms

\* Math.min(currentBpmRef.current + incrementRef.current, MAX_BPM)
bumpBpm(bpm, inc) == Min(bpm + inc, MAX_BPM)

\* 60.0 / currentBpmRef.current
secondsPerBeat(bpm) == (60 * Sec) \div bpm

\* nextNoteTimeRef.current < ctx.currentTime + lookahead
noteIsDue(nextNoteTime) == nextNoteTime < currentTime + lookahead

\* Math.max(0, (nextNoteTimeRef.current - ctx.currentTime) * 1000), which
\* setTimeout truncates to whole milliseconds
uiDelay(nextNoteTime) == (Max(0, nextNoteTime - currentTime) \div Ms) * Ms

\* Faulty variant: every click sounds as a plain beat.
playClickFlat(ctx, time, isDownbeat) ==
  IF ctx = "null" THEN <<>>
  ELSE <<[time |-> time, downbeat |-> FALSE]>>

\* playClick: nothing without an audio context, else one click at `time`
playClick(ctx, time, isDownbeat) ==
  IF ctx = "null" THEN <<>>
  ELSE <<[time |-> time, downbeat |-> isDownbeat]>>

\* The click as observed: with the scheduler's tempo when it was emitted
\* (bpm), the tempo that spaces the next tick (bpmAfter), and whether it is
\* the first click after the cursor was set to the audio clock (anchor).
Observed(clicks, bpm, bpmAfter) ==
  [i \in 1..Len(clicks) |->
     [time |-> clicks[i].time, downbeat |-> clicks[i].downbeat,
      bpm |-> bpm, bpmAfter |-> bpmAfter, anchor |-> FALSE]]

\* ... and with the beat index the scheduler held when it emitted it.
AtBeat(clicks, beat) ==
  [i \in 1..Len(clicks) |->
     [time |-> clicks[i].time, downbeat |-> clicks[i].downbeat,
      bpm |-> clicks[i].bpm, bpmAfter |-> clicks[i].bpmAfter,
      anchor |-> clicks[i].anchor, beat |-> beat]]

Anchored(clicks) ==
  [i \in 1..Len(clicks) |-> [clicks[i] EXCEPT !.anchor = (i = 1)]]

\* The scheduler's refs as scheduleNote reads and writes them.
SchedState ==
  [nextNoteTime |-> nextNoteTimeRef, currentBeat |-> currentBeatRef,
   measureInCycle |-> measureInCycleRef, totalMeasures |-> totalMeasuresRef,
   currentBpm |-> currentBpmRef, timeouts |-> timeouts,
   timerRef |-> timerRef, clicks |-> <<>>]

\* Faulty variant: the bar is one beat longer.
wrapsMeasureLate(nextBeat) == nextBeat > BEATS_PER_MEASURE

\* nextBeat >= BEATS_PER_MEASURE
wrapsMeasure(nextBeat) == nextBeat >= BEATS_PER_MEASURE

RECURSIVE scheduleLoop(_, _)
\* the while loop of scheduleNote
scheduleLoop(ctx, s) ==
  IF ~noteIsDue(s.nextNoteTime) THEN s
  ELSE
    LET beat == s.currentBeat
        isDownbeat == beat = 0
        click == playClick(ctx, s.nextNoteTime, isDownbeat)
        delay == uiDelay(s.nextNoteTime)
        nextBeat == beat + 1
        wraps == wrapsMeasure(nextBeat)
        measure1 == s.measureInCycle + 1
        bumps == wraps /\ measure1 >= MEASURES_PER_BUMP
        newBpm == bumpBpm(s.currentBpm, incrementRef)
        bpm1 == IF bumps THEN newBpm ELSE s.currentBpm
        uiTimeouts ==
          <<Timeout("beat", delay, beat)>> \o
          (IF bumps THEN <<Timeout("bump", delay, newBpm)>>
           ELSE IF wraps THEN <<Timeout("measure", delay, 0)>>
           ELSE <<>>)
    IN  scheduleLoop(ctx,
          [nextNoteTime |-> s.nextNoteTime + secondsPerBeat(bpm1),
           currentBeat |-> IF wraps THEN 0 ELSE nextBeat,
           measureInCycle |->
             IF bumps THEN 0 ELSE IF wraps THEN measure1 ELSE s.measureInCycle,
           totalMeasures |->
             IF wraps THEN s.totalMeasures + 1 ELSE s.totalMeasures,
           currentBpm |-> bpm1,
           timeouts |-> s.timeouts \o uiTimeouts,
           timerRef |-> s.timerRef,
           clicks |-> s.clicks \o
             AtBeat(Observed(click, s.currentBpm, bpm1), beat)])

\* Faulty variant: the paused flag is not read.
scheduleNoteUnguarded(ctx, paused, s) ==
  IF ctx = "null" THEN s
  ELSE LET t == scheduleLoop(ctx, s)
       IN  [t EXCEPT
              !.timeouts = Unref(@) \o
                 <<[Timeout("scheduleNote", scheduleInterval * Ms, 0)
                      EXCEPT !.ref = TRUE]>>,
              !.timerRef = "id"]

\* Faulty variant: the audio context is not looked at.
scheduleNoteAnyCtx(ctx, paused, s) ==
  IF paused THEN s
  ELSE LET t == scheduleLoop(ctx, s)
       IN  [t EXCEPT
              !.timeouts = Unref(@) \o
                 <<[Timeout("scheduleNote", scheduleInterval * Ms, 0)
                      EXCEPT !.ref = TRUE]>>,
              !.timerRef = "id"]

\* Faulty variant: the timer is not re-armed.
scheduleNoteNoRearm(ctx, paused, s) ==
  IF ctx = "null" \/ paused THEN s
  ELSE scheduleLoop(ctx, s)

\* scheduleNote, called with the audio context and the paused flag it reads
scheduleNote(ctx, paused, s) ==
  IF ctx = "null" \/ paused THEN s
  ELSE LET t == scheduleLoop(ctx, s)
       IN  [t EXCEPT
              !.timeouts = Unref(@) \o
                 <<[Timeout("scheduleNote", scheduleInterval * Ms, 0)
                      EXCEPT !.ref = TRUE]>>,
              !.timerRef = "id"]

\* Faulty variant: the timer is left pending.
clearTimerKeep(tr, tos) == tos

\* if (timerRef.current) { clearTimeout(timerRef.current) }
clearTimer(tr, tos) == IF tr # "null" THEN SelectSeqNotRef(tos) ELSE tos

\* -------------------------------------------------------------- waveform
WaveState ==
  [phase |-> wavePhaseRef, last |-> lastFrameTimeRef, anim |-> animFrameRef]

\* animateWaveform; the phase is kept multiplied by 60000
animateWaveform(playing, paused, bpm, w) ==
  IF ~playing \/ paused THEN w
  ELSE [phase |-> w.phase + (perfNow - w.last) * WAVE_LEN * bpm,
        last |-> perfNow,
        anim |-> "pending"]

\* startWaveform
startWaveform(playing, paused, bpm, w) ==
  animateWaveform(playing, paused, bpm,
                  [phase |-> 0, last |-> perfNow, anim |-> w.anim])

\* Faulty variant: the frame callback is left pending.
stopWaveformKeep(anim) == anim

\* stopWaveform: cancels the frame callback animFrameRef names, if any
stopWaveform(anim) == IF anim # "null" THEN "null" ELSE anim

\* ---------------------------------------------------------- observation
Hist(op, clicks) ==
  /\ lastOp' = op
  /\ emitted' = clicks
  /\ prevClick' = Last1(prevClick \o emitted)

Shift(clicks, d) ==
  [i \in 1..Len(clicks) |-> [clicks[i] EXCEPT !.time = @ - d]]

\* ------------------------------------------------------- transport
\* Faulty variants: resume keeps the cursor of before the pause; stop keeps
\* the displayed BPM.
resumeStale(s) == s
resumeCursorAhead(s) == [s EXCEPT !.nextNoteTime = currentTime + lookahead]
resumeFrameTimeStale(w) == w
bpmValStale(input) == currentBpm

\* nextNoteTimeRef.current = audioCtxRef.current.currentTime, on resume
resumeCursor(s) == [s EXCEPT !.nextNoteTime = currentTime]

\* lastFrameTimeRef.current = performance.now(), on resume
resumeFrameTime(w) == [w EXCEPT !.last = perfNow]

\* bpmVal of stop(): parseInt(startBpmInput, 10) || DEFAULT_BPM
bpmVal(input) == OrDefault(parseInt(input))

\* start(): returns at once while playing; resumes when paused; else opens
\* a fresh session.
start ==
  IF isPlaying /\ ~isPaused THEN
    /\ UNCHANGED progVars
    /\ Hist("start", <<>>)
  ELSE IF isPaused /\ audioCtxRef # "null" THEN
    LET s == scheduleNote("running", FALSE, resumeCursor(SchedState))
        w == animateWaveform(isPlayingRef, FALSE, s.currentBpm,
                             resumeFrameTime(WaveState))
    IN  /\ audioCtxRef' = "running"
        /\ isPausedRef' = FALSE
        /\ isPaused' = FALSE
        /\ nextNoteTimeRef' = s.nextNoteTime
        /\ currentBeatRef' = s.currentBeat
        /\ measureInCycleRef' = s.measureInCycle
        /\ totalMeasuresRef' = s.totalMeasures
        /\ currentBpmRef' = s.currentBpm
        /\ timeouts' = s.timeouts
        /\ timerRef' = s.timerRef
        /\ wavePhaseRef' = w.phase
        /\ lastFrameTimeRef' = w.last
        /\ animFrameRef' = w.anim
        /\ UNCHANGED <<startBpmInput, selectedIncrement, isPlaying,
                       currentBpm, currentBeat, measureInCycle,
                       totalMeasures, isPlayingRef, incrementRef>>
        /\ Hist("start", Anchored(s.clicks))
  ELSE
    LET bpm == clampBpm(startBpm)
        s == scheduleNote("running", FALSE,
                [nextNoteTime |-> currentTime, currentBeat |-> 0,
                 measureInCycle |-> 0, totalMeasures |-> 0,
                 currentBpm |-> bpm, timeouts |-> timeouts,
                 timerRef |-> timerRef, clicks |-> <<>>])
        w == startWaveform(TRUE, FALSE, s.currentBpm, WaveState)
    IN  /\ audioCtxRef' = "running"
        /\ nextNoteTimeRef' = s.nextNoteTime
        /\ currentBeatRef' = s.currentBeat
        /\ measureInCycleRef' = s.measureInCycle
        /\ totalMeasuresRef' = s.totalMeasures
        /\ currentBpmRef' = s.currentBpm
        /\ timeouts' = s.timeouts
        /\ timerRef' = s.timerRef
        /\ currentBeat' = -1
        /\ measureInCycle' = 0
        /\ totalMeasures' = 0
        /\ currentBpm' = bpm
        /\ isPlayingRef' = TRUE
        /\ isPausedRef' = FALSE
        /\ isPlaying' = TRUE
        /\ isPaused' = FALSE
        /\ wavePhaseRef' = w.phase
        /\ lastFrameTimeRef' = w.last
        /\ animFrameRef' = w.anim
        /\ UNCHANGED <<startBpmInput, selectedIncrement, incrementRef>>
        /\ lastOp' = "start"
        /\ emitted' = Anchored(s.clicks)
        /\ prevClick' = <<>>

\* Faulty variant: pause() without its guard.
pauseUnguarded ==
  /\ isPausedRef' = TRUE
  /\ isPaused' = TRUE
  /\ timeouts' = clearTimer(timerRef, timeouts)
  /\ timerRef' = "null"
  /\ animFrameRef' = stopWaveform(animFrameRef)
  /\ audioCtxRef' = IF audioCtxRef # "null" THEN "suspended" ELSE audioCtxRef
  /\ UNCHANGED <<startBpmInput, selectedIncrement, isPlaying, currentBpm,
                 currentBeat, measureInCycle, totalMeasures,
                 nextNoteTimeRef, currentBeatRef, measureInCycleRef,
                 totalMeasuresRef, currentBpmRef, isPlayingRef,
                 incrementRef, wavePhaseRef, lastFrameTimeRef>>
  /\ Hist("pause", <<>>)

\* pause()
pause ==
  IF ~isPlaying \/ isPaused THEN
    /\ UNCHANGED progVars
    /\ Hist("pause", <<>>)
  ELSE
    /\ isPausedRef' = TRUE
    /\ isPaused' = TRUE
    /\ timeouts' = clearTimer(timerRef, timeouts)
    /\ timerRef' = "null"
    /\ animFrameRef' = stopWaveform(animFrameRef)
    /\ audioCtxRef' = IF audioCtxRef # "null" THEN "suspended" ELSE audioCtxRef
    /\ UNCHANGED <<startBpmInput, selectedIncrement, isPlaying, currentBpm,
                   currentBeat, measureInCycle, totalMeasures,
                   nextNoteTimeRef, currentBeatRef, measureInCycleRef,
                   totalMeasuresRef, currentBpmRef, isPlayingRef,
                   incrementRef, wavePhaseRef, lastFrameTimeRef>>
    /\ Hist("pause", <<>>)

\* stop()
stop ==
  /\ isPlayingRef' = FALSE
  /\ isPausedRef' = FALSE
  /\ isPlaying' = FALSE
  /\ isPaused' = FALSE
  /\ timeouts' = clearTimer(timerRef, timeouts)
  /\ timerRef' = "null"
  /\ audioCtxRef' = "null"
  /\ animFrameRef' = stopWaveform(animFrameRef)
  /\ currentBeat' = -1
  /\ measureInCycle' = 0
  /\ totalMeasures' = 0
  /\ currentBpm' = bpmVal(startBpmInput)
  /\ UNCHANGED <<startBpmInput, selectedIncrement, nextNoteTimeRef,
                 currentBeatRef, measureInCycleRef, totalMeasuresRef,
                 currentBpmRef, incrementRef, wavePhaseRef,
                 lastFrameTimeRef>>
  /\ lastOp' = "stop"
  /\ emitted' = <<>>
  /\ prevClick' = <<>>

\* ------------------------------------------------------------- settings
\* onChange of the start-BPM input
onChange(raw) ==
  /\ startBpmInput' = raw
  /\ LET val == parseInt(raw)
     IN  currentBpm' =
           IF ~val.nan /\ val.val >= 1 /\ val.val <= MAX_BPM /\ ~isPlaying
           THEN val.val ELSE currentBpm
  /\ UNCHANGED <<selectedIncrement, isPlaying, isPaused, currentBeat,
                 measureInCycle, totalMeasures, schedVars, waveVars,
                 timeouts>>
  /\ Hist("onChange", <<>>)

\* onBlur of the start-BPM input
onBlur ==
  /\ LET val == parseInt(startBpmInput)
     IN  IF val.nan \/ val.val < 1 THEN
           /\ startBpmInput' = String(DEFAULT_BPM)
           /\ currentBpm' = IF ~isPlaying THEN DEFAULT_BPM ELSE currentBpm
         ELSE IF val.val > MAX_BPM THEN
           /\ startBpmInput' = String(MAX_BPM)
           /\ currentBpm' = IF ~isPlaying THEN MAX_BPM ELSE currentBpm
         ELSE UNCHANGED <<startBpmInput, currentBpm>>
  /\ UNCHANGED <<selectedIncrement, isPlaying, isPaused, currentBeat,
                 measureInCycle, totalMeasures, schedVars, waveVars,
                 timeouts>>
  /\ Hist("onBlur", <<>>)

\* Faulty variant: the increment is selected also while playing.
onClickIncrementUnguarded(i) ==
  /\ selectedIncrement' = i
  /\ incrementRef' = INCREMENTS[i + 1]
  /\ UNCHANGED <<startBpmInput, isPlaying, isPaused, currentBpm,
                 currentBeat, measureInCycle, totalMeasures, audioCtxRef,
                 timerRef, nextNoteTimeRef, currentBeatRef,
                 measureInCycleRef, totalMeasuresRef, currentBpmRef,
                 isPlayingRef, isPausedRef, waveVars, timeouts>>
  /\ Hist("onClickIncrement", <<>>)

\* onClick of increment button i; the effect on selectedIncrement copies
\* the value into incrementRef
onClickIncrement(i) ==
  /\ IF ~isPlaying THEN
       /\ selectedIncrement' = i
       /\ incrementRef' = INCREMENTS[i + 1]
     ELSE UNCHANGED <<selectedIncrement, incrementRef>>
  /\ UNCHANGED <<startBpmInput, isPlaying, isPaused, currentBpm,
                 currentBeat, measureInCycle, totalMeasures, audioCtxRef,
                 timerRef, nextNoteTimeRef, currentBeatRef,
                 measureInCycleRef, totalMeasuresRef, currentBpmRef,
                 isPlayingRef, isPausedRef, waveVars, timeouts>>
  /\ Hist("onClickIncrement", <<>>)

\* ------------------------------------------------------------ callbacks
\* The pending timeout that fires next: the one due first, the older one
\* among equals.
Earliest(tos) ==
  CHOOSE i \in 1..Len(tos) :
    \A j \in 1..Len(tos) :
      tos[i].due < tos[j].due \/ (tos[i].due = tos[j].due /\ i <= j)

\* No pending timeout is due.
nothingDue(tos) == \A i \in 1..Len(tos) : tos[i].due > 0

\* A call of scheduleNote, with the timeouts that are pending when it runs.
WakeUp(pending) ==
  /\ LET s == scheduleNote(audioCtxRef, isPausedRef,
                           [SchedState EXCEPT !.timeouts = pending])
     IN  /\ nextNoteTimeRef' = s.nextNoteTime
         /\ currentBeatRef' = s.currentBeat
         /\ measureInCycleRef' = s.measureInCycle
         /\ totalMeasuresRef' = s.totalMeasures
         /\ currentBpmRef' = s.currentBpm
         /\ timeouts' = s.timeouts
         /\ timerRef' = s.timerRef
         /\ Hist("scheduleNote", s.clicks)
  /\ UNCHANGED <<uiVars, audioCtxRef, isPlayingRef, isPausedRef,
                 incrementRef, waveVars>>

\* Faulty variant: the update is applied also after stop().
UiUpdateUnguarded(t, rest) ==
  /\ timeouts' = rest
  /\ IF t.kind = "beat" THEN
       /\ currentBeat' = t.arg
       /\ UNCHANGED <<currentBpm, measureInCycle, totalMeasures>>
     ELSE IF t.kind = "bump" THEN
       /\ currentBpm' = t.arg
       /\ measureInCycle' = 0
       /\ totalMeasures' = totalMeasuresRef
       /\ UNCHANGED currentBeat
     ELSE
       /\ measureInCycle' = measureInCycleRef
       /\ totalMeasures' = totalMeasuresRef
       /\ UNCHANGED <<currentBeat, currentBpm>>
  /\ UNCHANGED <<startBpmInput, selectedIncrement, isPlaying, isPaused,
                 schedVars, waveVars>>
  /\ Hist("uiUpdate", <<>>)

\* The deferred UI updates of a tick.
UiUpdate(t, rest) ==
  /\ timeouts' = rest
  /\ IF ~isPlayingRef THEN
       UNCHANGED <<currentBeat, currentBpm, measureInCycle, totalMeasures>>
     ELSE IF t.kind = "beat" THEN
       /\ currentBeat' = t.arg
       /\ UNCHANGED <<currentBpm, measureInCycle, totalMeasures>>
     ELSE IF t.kind = "bump" THEN
       /\ currentBpm' = t.arg
       /\ measureInCycle' = 0
       /\ totalMeasures' = totalMeasuresRef
       /\ UNCHANGED currentBeat
     ELSE
       /\ measureInCycle' = measureInCycleRef
       /\ totalMeasures' = totalMeasuresRef
       /\ UNCHANGED <<currentBeat, currentBpm>>
  /\ UNCHANGED <<startBpmInput, selectedIncrement, isPlaying, isPaused,
                 schedVars, waveVars>>
  /\ Hist("uiUpdate", <<>>)

\* A due timeout fires: the scheduler's timer (a wake-up) or a UI update.
FireTimeout ==
  /\ timeouts # <<>>
  /\ LET i == Earliest(timeouts)
         t == timeouts[i]
         rest == RemoveAt(timeouts, i)
     IN  /\ t.due <= 0
         /\ IF t.kind = "scheduleNote" THEN WakeUp(rest)
            ELSE UiUpdate(t, rest)

\* The frame callback animateWaveform is delivered.
AnimationFrame ==
  /\ animFrameRef = "pending"
  /\ wavePhaseRef < MaxPhase
  /\ LET w == animateWaveform(isPlayingRef, isPausedRef, currentBpmRef,
                              [WaveState EXCEPT !.anim = "fired"])
     IN  /\ wavePhaseRef' = w.phase
         /\ lastFrameTimeRef' = w.last
         /\ animFrameRef' = w.anim
  /\ UNCHANGED <<uiVars, schedVars, timeouts, histVars>>

\* ----------------------------------------------------------------- time
\* A wake-up that finds no tick due only re-arms its timer (lines 153, 196):
\* while the scheduler runs, time is followed from one wake-up that has a
\* tick to schedule to the next, the idle wake-ups in between passing with
\* the time.
idles(t) ==
  t.kind = "scheduleNote" /\ audioCtxRef = "running" /\ ~isPausedRef

\* The first firing time r, r + 25 ms, r + 50 ms, ... of the scheduler's
\* timer at which a tick is due.
firstDue(r) ==
  LET gap == nextNoteTimeRef - currentTime - lookahead
  IN  IF r > gap THEN r
      ELSE r + ((gap - r) \div StepDelay + 1) * StepDelay

\* The time until timeout t has something to do.
nextWork(t) == IF idles(t) THEN firstDue(t.due) ELSE t.due

\* The time until the next timeout has something to do.
nextEvent(tos) ==
  LET i == CHOOSE i \in 1..Len(tos) :
             \A j \in 1..Len(tos) : nextWork(tos[i]) <= nextWork(tos[j])
  IN  nextWork(tos[i])

\* The delay left of the scheduler's timer after d, re-armed by each idle
\* wake-up that fell in d.
rearmed(r, d) ==
  IF d <= r THEN r - d
  ELSE (StepDelay - ((d - r) % StepDelay)) % StepDelay

\* The pending timeouts after d has passed.
elapse(tos, d, fold) ==
  [i \in 1..Len(tos) |->
     [tos[i] EXCEPT !.due = IF fold /\ idles(tos[i]) THEN rearmed(@, d)
                            ELSE @ - d]]

\* d of time passes on the timer clock and, for a running context, on the
\* audio clock.
Elapse(d, fold) ==
  /\ timeouts' = elapse(timeouts, d, fold)
  /\ nextNoteTimeRef' =
       IF audioCtxRef = "running" THEN nextNoteTimeRef - d
       ELSE nextNoteTimeRef
  /\ UNCHANGED <<uiVars, audioCtxRef, timerRef, currentBeatRef,
                 measureInCycleRef, totalMeasuresRef, currentBpmRef,
                 isPlayingRef, isPausedRef, incrementRef, waveVars>>
  /\ emitted' = <<>>
  /\ prevClick' =
       IF audioCtxRef = "running" THEN Shift(Last1(prevClick \o emitted), d)
       ELSE Last1(prevClick \o emitted)

\* Time passes until the next timeout has something to do.
Advance ==
  /\ timeouts # <<>>
  /\ nothingDue(timeouts)
  /\ audioCtxRef = "running" => totalMeasuresRef < MaxMeasures
  /\ Elapse(nextEvent(timeouts), TRUE)
  /\ lastOp' = "advance"

\* From the end of a wake-up the event loop is blocked for StallDelay while
\* the audio clock runs on: no callback runs, and a tick is overdue when the
\* loop is free again.
Stall ==
  /\ nothingDue(timeouts)
  /\ audioCtxRef = "running"
  /\ \E i \in 1..Len(timeouts) :
       timeouts[i].ref /\ timeouts[i].due = StepDelay
  /\ totalMeasuresRef < MaxMeasures
  /\ noteIsDue(nextNoteTimeRef - StallDelay)
  /\ Elapse(StallDelay, FALSE)
  /\ lastOp' = "stall"

\* performance.now() advances by one frame gap.
PerfTick ==
  /\ isPlaying
  /\ wavePhaseRef < MaxPhase
  /\ perfNow - lastFrameTimeRef < MaxFrameAge
  /\ lastFrameTimeRef' = lastFrameTimeRef - FrameMs
  /\ UNCHANGED <<uiVars, schedVars, wavePhaseRef, animFrameRef, timeouts,
                 histVars>>

\* ------------------------------------------------------------ interface
\* The handlers as the interface runs them: a control responds where it is
\* not disabled, and a user event is handled when no timeout is due.
ClickStart ==
  /\ ~(isPlaying /\ ~isPaused)
  /\ nothingDue(timeouts)
  /\ isPaused => totalMeasuresRef < MaxMeasures
  /\ ~isPlaying => totalMeasuresRef < MaxEditMeasures
  /\ start

ClickPause ==
  /\ ~(~isPlaying \/ isPaused)
  /\ nothingDue(timeouts)
  /\ pause

ClickStop ==
  /\ ~(~isPlaying)
  /\ nothingDue(timeouts)
  /\ stop

EditStartBpm(raw) ==
  /\ ~isPlaying
  /\ nothingDue(timeouts)
  /\ totalMeasuresRef < MaxEditMeasures
  /\ raw # startBpmInput
  /\ onChange(raw)

BlurStartBpm ==
  /\ ~isPlaying
  /\ nothingDue(timeouts)
  /\ totalMeasuresRef < MaxEditMeasures
  /\ onBlur

ClickIncrement(i) ==
  /\ ~isPlaying
  /\ nothingDue(timeouts)
  /\ totalMeasuresRef < MaxEditMeasures
  /\ onClickIncrement(i)

Next ==
  \/ ClickStart
  \/ ClickPause
  \/ ClickStop
  \/ \E raw \in TypedInputs : EditStartBpm(raw)
  \/ BlurStartBpm
  \/ \E i \in 0..2 : ClickIncrement(i)
  \/ FireTimeout
  \/ Advance
  \/ Stall

Spec == Init /\ [][Next]_vars

\* ---------------------------------------------------------------- frames
\* The same with the display delivering animation frames, followed while
\* the scheduler has counted fewer than MaxWaveMeasures measures.
WaveNext ==
  \/ totalMeasuresRef < MaxWaveMeasures /\ Next
  \/ AnimationFrame
  \/ PerfTick

WaveSpec == Init /\ [][WaveNext]_vars

\* --------------------------------------------------------- direct calls
\* Handlers called where the interface would not call them: a command that
\* is redundant in the present state, scheduleNote outside its timer chain
\* while paused or stopped, and the handlers of the settings during a
\* session.
CallStart ==
  /\ isPlaying /\ ~isPaused
  /\ totalMeasuresRef < MaxCallMeasures
  /\ nothingDue(timeouts)
  /\ start

CallPause ==
  /\ ~isPlaying \/ isPaused
  /\ totalMeasuresRef < MaxCallMeasures
  /\ nothingDue(timeouts)
  /\ pause

CallStop ==
  /\ ~isPlaying
  /\ totalMeasuresRef < MaxCallMeasures
  /\ nothingDue(timeouts)
  /\ stop

CallScheduleNote ==
  /\ audioCtxRef = "null" \/ isPausedRef
  /\ totalMeasuresRef < MaxCallMeasures
  /\ nothingDue(timeouts)
  /\ WakeUp(timeouts)

\* playClick called without an audio context
CallPlayClick ==
  /\ audioCtxRef = "null"
  /\ totalMeasuresRef < MaxCallMeasures
  /\ nothingDue(timeouts)
  /\ UNCHANGED progVars
  /\ \E isDownbeat \in BOOLEAN :
       Hist("playClick", playClick(audioCtxRef, currentTime, isDownbeat))

CallOnChange(raw) ==
  /\ isPlaying
  /\ totalMeasuresRef < MaxCallMeasures
  /\ nothingDue(timeouts)
  /\ raw # startBpmInput
  /\ onChange(raw)

CallOnBlur ==
  /\ isPlaying
  /\ totalMeasuresRef < MaxCallMeasures
  /\ nothingDue(timeouts)
  /\ onBlur

CallOnClickIncrement(i) ==
  /\ isPlaying
  /\ totalMeasuresRef < MaxCallMeasures
  /\ nothingDue(timeouts)
  /\ onClickIncrement(i)

CallNext ==
  \/ Next
  \/ CallStart
  \/ CallPause
  \/ CallStop
  \/ CallScheduleNote
  \/ CallPlayClick
  \/ \E raw \in TypedInputs : CallOnChange(raw)
  \/ CallOnBlur
  \/ \E i \in 0..2 : CallOnClickIncrement(i)

CallSpec == Init /\ [][CallNext]_vars

\* ------------------------------------------------ uninterrupted session
\* A session that is started at DEFAULT_BPM with any of the increments and
\* then neither paused nor stopped, followed while the scheduler has counted
\* fewer than LiveMeasures measures.  The event loop runs every timeout that
\* is due, and time goes on.
LiveAdvance ==
  /\ timeouts # <<>>
  /\ nothingDue(timeouts)
  /\ totalMeasuresRef < LiveMeasures
  /\ Elapse(nextEvent(timeouts), TRUE)
  /\ lastOp' = "advance"

LiveNext ==
  \/ ClickStart
  \/ \E i \in 0..2 : ClickIncrement(i)
  \/ FireTimeout
  \/ LiveAdvance

LiveSpec ==
  Init /\ [][LiveNext]_vars /\ WF_vars(FireTimeout) /\ WF_vars(LiveAdvance)

\* ------------------------------------------------------------ properties
\* The clicks known in a state: the last one emitted before the last handler
\* ran, then the ones it emitted.
Clicks == prevClick \o emitted

\* C1: in a session started at 60 BPM with increment 5, the scheduler's BPM
\* is 60 while no bar is complete (no bump on bar 0), and is 60, 65 and 70
\* when exactly 4, 8 and 12 bars have been scheduled.
C1_BpmAfterBars ==
  (isPlaying /\ clampBpm(startBpm) = 60 /\ incrementRef = 5) =>
    /\ totalMeasuresRef = 0 => currentBpmRef = 60
    /\ (currentBeatRef = 0 /\ totalMeasuresRef \in {4, 8, 12}) =>
         currentBpmRef = 60 + 5 * ((totalMeasuresRef \div 4) - 1)

\* C2: in every reachable state the scheduler's BPM is an integer in
\* 1..300.
C2_BpmInRange == currentBpmRef \in 1..MAX_BPM

\* C2, its case: a session started from the text 500 runs at 300 and has
\* bumped at 300.
C2_BumpAtMax ==
  /\ isPlaying
  /\ startBpm > MAX_BPM
  /\ currentBpmRef = MAX_BPM
  /\ \E i \in 1..Len(timeouts) :
       timeouts[i].kind = "bump" /\ timeouts[i].arg = MAX_BPM

\* C3: within one session no step (wake-up, pause, resume, UI update, time
\* passing) decreases the scheduler's BPM.
C3_BpmNeverDecreases ==
  [][(isPlaying /\ isPlaying') => currentBpmRef' >= currentBpmRef]_vars

\* C3, its case: a session that has bumped was paused and resumed.
C3_ResumedAfterBump ==
  /\ isPlaying
  /\ lastOp = "start"
  /\ prevClick # <<>>
  /\ currentBpmRef > clampBpm(startBpm)

\* C4: the clicks a wake-up emits follow the previous click and one another
\* at strictly increasing timestamps, each exactly 60/BPM seconds after the
\* one before, BPM being the scheduler's BPM that spaced them.
C4_ClickSpacing ==
  lastOp = "scheduleNote" =>
    \A i \in 1..(Len(Clicks) - 1) :
      /\ Clicks[i + 1].time > Clicks[i].time
      /\ (60 * Sec) % Clicks[i].bpmAfter = 0
      /\ Clicks[i + 1].time - Clicks[i].time = (60 * Sec) \div Clicks[i].bpmAfter

\* C4, its case: a wake-up emitted the tick that follows a bump.
C4_TickAfterBump ==
  /\ lastOp = "scheduleNote"
  /\ prevClick # <<>>
  /\ emitted # <<>>
  /\ prevClick[1].bpmAfter > prevClick[1].bpm

\* C5: the wake-up that follows a stall of StallSeconds emits no click whose
\* timestamp is before the audio clock's current time.
C5_NoBacklogAfterStall ==
  [][(lastOp = "stall" /\ lastOp' = "scheduleNote") =>
       \A i \in 1..Len(emitted') : emitted'[i].time >= currentTime]_vars

\* C6: pause() while paused, pause() while stopped, start() while playing
\* and stop() while stopped change nothing the program holds.
C6_RedundantCommandsChangeNothing ==
  [][(\/ lastOp' = "pause" /\ (~isPlaying \/ isPaused)
      \/ lastOp' = "start" /\ isPlaying /\ ~isPaused
      \/ lastOp' = "stop" /\ ~isPlaying)
       => UNCHANGED progVars]_vars

\* C7: whenever the transport is stopped no scheduler timer and no frame
\* callback is pending, and while it stays stopped no click is emitted and
\* the wave phase does not advance.
C7_StopCancels ==
  [][/\ ~isPlaying' =>
          /\ timerRef' = "null"
          /\ \A i \in 1..Len(timeouts') : timeouts'[i].kind # "scheduleNote"
          /\ animFrameRef' # "pending"
     /\ (~isPlaying /\ ~isPlaying') =>
          /\ emitted' = <<>>
          /\ wavePhaseRef' = wavePhaseRef]_vars

\* C7, its case: stop() ran in a session whose wave had advanced and whose
\* UI updates were still pending.
C7_StoppedMidSession ==
  /\ lastOp = "stop"
  /\ wavePhaseRef > 0
  /\ timeouts # <<>>

\* C8: right after stop() the displayed BPM is the start BPM set in the
\* input.
C8_StopResetsBpm == lastOp = "stop" => currentBpm = startBpm

\* C8, its case: stop() ran in a session that had bumped.
C8_StoppedAfterBump ==
  /\ lastOp = "stop"
  /\ currentBpmRef > clampBpm(startBpm)

\* C9: a resume emits a click, and its first click is at the audio clock's
\* current time.
C9_ResumeClickAtNow ==
  (lastOp = "start" /\ prevClick # <<>>) =>
    /\ emitted # <<>>
    /\ emitted[1].time = currentTime

\* C9, its case: a resume in a session whose last tick before the pause was
\* queued ahead of the audio clock.
C9_ResumedWithTickAhead ==
  /\ lastOp = "start"
  /\ prevClick # <<>>
  /\ prevClick[1].time > currentTime

\* C10: a call of scheduleNote while paused changes nothing the program
\* holds and emits no click.
C10_PausedCallChangesNothing ==
  [][(lastOp' = "scheduleNote" /\ isPausedRef) =>
       (UNCHANGED progVars /\ emitted' = <<>>)]_vars

\* C10, its case: scheduleNote was called while paused.
C10_CalledWhilePaused ==
  /\ lastOp = "scheduleNote"
  /\ isPausedRef
  /\ isPaused

\* C11: the paused flag is set only while the playing flag is set, and the
\* ref flags equal the state flags; Paused is entered only from Playing by
\* pause(), Playing only by start() (from Stopped or Paused), and stop()
\* leads to Stopped.
Stopped == ~isPlaying /\ ~isPaused
Playing == isPlaying /\ ~isPaused
Paused == isPlaying /\ isPaused
TransportFlags ==
  /\ isPaused => isPlaying
  /\ isPlayingRef = isPlaying
  /\ isPausedRef = isPaused

C11_TransportStates ==
  [][/\ TransportFlags /\ TransportFlags'
     /\ (~Paused /\ Paused') => (Playing /\ lastOp' = "pause")
     /\ (~Playing /\ Playing') => lastOp' = "start"
     /\ lastOp' = "stop" => Stopped']_vars

\* C11, its case: a session is Paused by pause() after ticks were scheduled.
C11_PausedInSession ==
  /\ Paused
  /\ lastOp = "pause"
  /\ audioCtxRef = "suspended"
  /\ currentBeatRef > 1

\* C12: during a session, paused or not, no step changes the selected
\* increment or the increment the bumps apply, a call of a settings handler
\* leaves the scheduler's BPM as it is, and every bump adds the increment
\* selected at the start of the session, up to MAX_BPM.
C12_ConfigFixedInSession ==
  [][(isPlaying /\ isPlaying') =>
       /\ incrementRef' = incrementRef
       /\ selectedIncrement' = selectedIncrement
       /\ incrementRef = INCREMENTS[selectedIncrement + 1]
       /\ lastOp' \in {"onChange", "onBlur", "onClickIncrement"} =>
            currentBpmRef' = currentBpmRef
       /\ \A i \in 1..Len(emitted') :
            emitted'[i].bpmAfter # emitted'[i].bpm =>
              emitted'[i].bpmAfter =
                Min(emitted'[i].bpm + INCREMENTS[selectedIncrement + 1],
                    MAX_BPM)]_vars

\* C12, its case: a session bumps after its start-BPM text was replaced
\* while it ran (a session started from the text 500 runs at MAX_BPM).
C12_BumpAfterEdit ==
  /\ isPlaying
  /\ startBpm > MAX_BPM
  /\ currentBpmRef < MAX_BPM
  /\ \E i \in 1..Len(emitted) : emitted[i].bpmAfter > emitted[i].bpm

\* C13: a click is a downbeat exactly when the beat index it was scheduled
\* at is 0; the first click of a session is at beat index 0 and each later
\* click, also the first one after a resume, is at the beat index that
\* follows the one of the click before, modulo BEATS_PER_MEASURE: the roles
\* repeat downbeat, beat, beat, beat.
C13_ClickRoles ==
  /\ \A i \in 1..Len(Clicks) : Clicks[i].downbeat <=> (Clicks[i].beat = 0)
  /\ \A i \in 1..(Len(Clicks) - 1) :
       Clicks[i + 1].beat = (Clicks[i].beat + 1) % BEATS_PER_MEASURE
  /\ (lastOp = "start" /\ prevClick = <<>> /\ isPlaying) =>
       (emitted # <<>> /\ emitted[1].beat = 0)

\* C13, its case: a resume whose first click is the downbeat that follows
\* the last beat of a bar scheduled before the pause.
C13_ResumedOnDownbeat ==
  /\ lastOp = "start"
  /\ prevClick # <<>>
  /\ ~prevClick[1].downbeat
  /\ emitted # <<>>
  /\ emitted[1].downbeat

\* The scheduler's position: beat index, measure counters and BPM.
Position ==
  <<currentBeatRef, measureInCycleRef, totalMeasuresRef, currentBpmRef>>

\* C14: no step between pause() and the resume changes the scheduler's
\* position; the resume runs the scheduler at once, which schedules exactly
\* one tick, at the beat index and BPM the session was paused at, and
\* advances the position by that tick.
C14_FrozenWhilePaused ==
  [][/\ (isPaused /\ isPaused') => UNCHANGED Position
     /\ (isPaused /\ isPlaying' /\ ~isPaused') =>
          /\ Len(emitted') = 1
          /\ emitted'[1].beat = currentBeatRef
          /\ emitted'[1].bpm = currentBpmRef
          /\ currentBeatRef' = (currentBeatRef + 1) % BEATS_PER_MEASURE
          /\ totalMeasuresRef' =
               totalMeasuresRef + (currentBeatRef + 1) \div BEATS_PER_MEASURE
          /\ currentBpmRef' = emitted'[1].bpmAfter]_vars

\* C14 as stated: neither the steps between pause() and the resume nor the
\* resume itself change the scheduler's position.
C14_ResumeKeepsPosition ==
  [][/\ (isPaused /\ isPaused') => UNCHANGED Position
     /\ (isPaused /\ isPlaying' /\ ~isPaused') => UNCHANGED Position]_vars

\* C14, its case: a resume that schedules the last tick of a cycle, so that
\* the resume itself completes the bar and bumps the BPM.
C14_ResumeBumps ==
  /\ lastOp = "start"
  /\ prevClick # <<>>
  /\ emitted # <<>>
  /\ emitted[1].beat = BEATS_PER_MEASURE - 1
  /\ emitted[1].bpmAfter > emitted[1].bpm

\* C15: a fresh start() sets the wave phase to 0; no step of a session
\* decreases it; no step between pause() and the resume, nor the resume
\* itself, changes it; and the resume sets the time the next frame measures
\* its delta from to the present.
C15_WavePhase ==
  [][/\ (~isPlaying /\ isPlaying') => wavePhaseRef' = 0
     /\ (isPlaying /\ isPlaying') => wavePhaseRef' >= wavePhaseRef
     /\ (isPaused /\ isPlaying') => wavePhaseRef' = wavePhaseRef
     /\ (isPaused /\ isPlaying' /\ ~isPaused') =>
          (lastFrameTimeRef' = perfNow /\ animFrameRef' = "pending")]_vars

\* C15, its case: a session whose wave had advanced was paused and resumed.
C15_ResumedWithPhase ==
  /\ lastOp = "start"
  /\ prevClick # <<>>
  /\ wavePhaseRef > 0
  /\ animFrameRef = "pending"

\* C16: without an audio context a call of scheduleNote and a call of
\* playClick change nothing the program holds (no counter, no cursor, no
\* timer) and emit no click.
C16_NoContextNoEffect ==
  [][(lastOp' \in {"scheduleNote", "playClick"} /\ audioCtxRef = "null") =>
       (UNCHANGED progVars /\ emitted' = <<>>)]_vars

\* C16, its case: scheduleNote was called after stop() had closed the
\* context of a session stopped in the middle of a bar.
C16_CalledAfterStop ==
  /\ lastOp = "scheduleNote"
  /\ audioCtxRef = "null"
  /\ ~isPlaying
  /\ currentBeatRef > 0

\* C17: the interval from a tick to the tick a wake-up schedules after it
\* is 60/BPM of the BPM in effect when the earlier tick was scheduled, also
\* when the earlier tick is the last of a cycle: the bumped BPM spaces only
\* the ticks after the downbeat of the new cycle.
C17_BumpNotRetroactive ==
  lastOp = "scheduleNote" =>
    \A i \in 1..(Len(Clicks) - 1) :
      Clicks[i + 1].time - Clicks[i].time = (60 * Sec) \div Clicks[i].bpm

\* C18: the scheduler's beat index is in 0..3, its measure-in-cycle index
\* is in 0..3 and equals its total of measures modulo 4; a step of a
\* session that schedules n ticks (n = 0 for every other step) advances the
\* beat index by n modulo 4 and the total of measures by the number of
\* times the beat index wrapped to 0, and a fresh start counts from 0.
Counters ==
  /\ currentBeatRef \in 0..(BEATS_PER_MEASURE - 1)
  /\ measureInCycleRef \in 0..(MEASURES_PER_BUMP - 1)
  /\ measureInCycleRef = totalMeasuresRef % MEASURES_PER_BUMP

C18_Counters ==
  [][/\ Counters /\ Counters'
     /\ isPlaying' =>
          LET n == Len(emitted')
              beat == IF isPlaying THEN currentBeatRef ELSE 0
              total == IF isPlaying THEN totalMeasuresRef ELSE 0
          IN  /\ currentBeatRef' = (beat + n) % BEATS_PER_MEASURE
              /\ totalMeasuresRef' = total + (beat + n) \div BEATS_PER_MEASURE
              /\ \A i \in 1..n :
                   emitted'[i].beat = (beat + i - 1) % BEATS_PER_MEASURE]_vars

\* C18, its case: one wake-up scheduled the ticks of more than a bar, and
\* the scheduler has counted a full cycle of measures.
C18_WrappedInBurst ==
  /\ lastOp = "scheduleNote"
  /\ Len(emitted) > BEATS_PER_MEASURE
  /\ totalMeasuresRef > MEASURES_PER_BUMP

\* C19: every click a call of the scheduler emits has a timestamp less than
\* 0.1 s after the audio clock's time of the call, and when the scheduler
\* has run unpaused (from its timer or from start()) the cursor is at least
\* 0.1 s after the audio clock's time.
C19_LookaheadBound ==
  lastOp \in {"scheduleNote", "start"} =>
    /\ \A i \in 1..Len(emitted) : emitted[i].time - currentTime < Sec \div 10
    /\ (isPlaying /\ ~isPausedRef) =>
         nextNoteTimeRef - currentTime >= Sec \div 10

\* C19, its case: a wake-up of the timer emitted a click ahead of the audio
\* clock and left the cursor beyond the lookahead.
C19_ClickAhead ==
  /\ lastOp = "scheduleNote"
  /\ emitted # <<>>
  /\ emitted[Len(emitted)].time > currentTime
  /\ nextNoteTimeRef > currentTime + lookahead

\* C20: at every point of a session, paused or not, the scheduler's BPM is
\* min(S + I * floor(T / 4), 300): S the start BPM clamped into 1..300, I
\* the selected increment, T the scheduler's total of measures.
C20_BpmClosedForm ==
  isPlaying =>
    currentBpmRef =
      Min(clampBpm(startBpm) +
            INCREMENTS[selectedIncrement + 1] *
              (totalMeasuresRef \div MEASURES_PER_BUMP),
          MAX_BPM)

\* C20, its case: a session below MAX_BPM that has completed a cycle was
\* paused and resumed.
C20_ResumedAfterCycle ==
  /\ lastOp = "start"
  /\ prevClick # <<>>
  /\ totalMeasuresRef >= MEASURES_PER_BUMP
  /\ currentBpmRef < MAX_BPM
  /\ selectedIncrement = 2

\* The pending wake-up timers of the scheduler.
WakeUpTimers ==
  { i \in 1..Len(timeouts) : timeouts[i].kind = "scheduleNote" }

\* C21: while the transport is Playing exactly one wake-up timer is
\* pending, the one timerRef names; while it is Paused or Stopped none is.
C21_OneWakeUpTimer ==
  /\ Cardinality(WakeUpTimers) = IF Playing THEN 1 ELSE 0
  /\ \A i \in WakeUpTimers : timeouts[i].ref /\ timerRef # "null"

\* C21, its case: a resumed session, its timer re-armed by a wake-up that
\* followed the resume.
C21_TimerAfterResume ==
  /\ Playing
  /\ lastOp = "scheduleNote"
  /\ \E i \in 1..Len(Clicks) : Clicks[i].anchor /\ Clicks[i].beat > 0
  /\ Cardinality(WakeUpTimers) = 1

\* C22: throughout a session, also across pause and resume, a click is
\* never emitted with a timestamp earlier than that of the click emitted
\* before it.
C22_ClicksInOrder ==
  \A i \in 1..(Len(Clicks) - 1) : Clicks[i + 1].time >= Clicks[i].time

\* C23: while the transport is Paused no step changes the displayed beat,
\* the displayed BPM or the displayed measure.
C23_DisplayFrozenWhilePaused ==
  [][(Paused /\ Paused') =>
       UNCHANGED <<currentBeat, currentBpm, measureInCycle, totalMeasures>>]_vars

\* C24: the displayed beat of a session comes from a tick of that session:
\* during the first bar of a session it is -1 or the beat index of a tick
\* the session has scheduled, which is below the scheduler's beat index.
C24_DisplayFromThisSession ==
  (isPlaying /\ totalMeasuresRef = 0) => currentBeat < currentBeatRef

\* C25: while the transport is Stopped the displayed beat is -1 and the
\* displayed measure is 0, also after the UI updates that were pending at
\* stop() have fired.
C25_DisplayResetWhileStopped ==
  Stopped => (currentBeat = -1 /\ measureInCycle = 0 /\ totalMeasures = 0)

\* C25, its case: a UI update that was pending at stop() has fired.
C25_UpdateFiredAfterStop ==
  /\ Stopped
  /\ lastOp = "uiUpdate"

\* C26: in a session that is neither paused nor stopped, with time going on
\* and every due timeout fired, a click is emitted again and again (as long
\* as the session is followed), and the scheduler's BPM reaches MAX_BPM and
\* is MAX_BPM from then on.
C26_ClicksGoOnBpmReachesMax ==
  /\ (Playing /\ totalMeasuresRef < LiveMeasures) ~> (emitted # <<>>)
  /\ Playing ~> [](currentBpmRef = MAX_BPM)

\* C26, its case: a session started at 60 BPM that has bumped its way to
\* MAX_BPM still emits clicks.
C26_ClickAtMaxBpm ==
  /\ Playing
  /\ clampBpm(startBpm) = DEFAULT_BPM
  /\ currentBpmRef = MAX_BPM
  /\ totalMeasuresRef > 4 * MEASURES_PER_BUMP
  /\ emitted # <<>>

\* C27: the displayed BPM is an integer in 1..300 in every reachable state.
C27_DisplayedBpmInRange == currentBpm \in 1..MAX_BPM

====
